---- MODULE Spec2Model ----
(***************************************************************************)
(* Capacity-allocation engine and forecast (CapacityPlanningService),     *)
(* day-scheduling engine (AIService) and the available-hours computation   *)
(* of the organize-tasks routes of the work-planning backend.              *)
(*                                                                         *)
(* Quantities are integers (hours / capacity units).  Ratios are kept as   *)
(* exact fractions <<numerator, denominator>>; efficiency scores are kept  *)
(* in tenths (0.5 is 5).                                                   *)
(***************************************************************************)
EXTENDS Integers, Sequences, FiniteSets, TLC

(* ------------------------------ bounds -------------------------------- *)
MaxRes == 2
MaxProj == 2
MaxTasks == 2
MaxDays == 2
MaxMonths == 3

VARIABLES
    mode,                 \* entry point under execution
    pc,                   \* position inside the entry point
    resources,            \* List[Resource]; available_capacity is mutated in place
    projects,             \* List[Project]; sorted in place by load balancing
    plans,                \* plans produced so far (generate_capacity_plan: plans.extend)
    project_index,        \* position of the `for project in projects` loop (1-based)
    required_capacity,    \* required_capacity / remaining_requirement of the current project
    resource_index,       \* load balancing: round-robin index (0-based, as in the code)
    resources_sorted,     \* cost optimization: resource positions sorted by cost
    resource_efficiency,  \* efficiency maximization: <<resource position, efficiency>> list
    cursor,               \* position of the inner `for resource in ...` loop (1-based)
    tasks,                \* task_data: the tasks to organize, in input order
    work_days,            \* configured work days, in order
    available_hours_by_day, \* day -> hours left after meetings
    proposal,             \* parsed_response as received from the advisory service
    sorted_tasks,         \* fallback: tasks in scheduling order
    schedule,             \* day -> list of segments (fallback: schedule; validation:
                          \* parsed_response['schedule'], rewritten in place)
    unassigned_tasks,     \* list of unassigned task entries
    task_index,           \* fallback: position of `for task in sorted_tasks` (1-based)
    remaining_hours,      \* fallback: remaining_hours of the current task
    current_day_idx,      \* fallback: day cursor (0-based, as in the code)
    current_day_hours,    \* fallback: hours already used in the current day
    day_index,            \* validation: position of `for day in work_days` (1-based)
    utilization_percentage, \* summary['utilization_percentage'], in tenths of a percent
    ai_response,          \* organize_tasks: what the advisory call produced
    summary,              \* generate_capacity_plan: summary (a dict)
    recommendations,      \* generate_capacity_plan: recommendations (list of messages)
    resources_at_start,   \* the resources as generate_capacity_plan received them
    now,                  \* get_capacity_forecast: datetime.now(), as <<year, month, day>>
    months_ahead,         \* get_capacity_forecast: months_ahead
    historical_plans,     \* the capacity_plans table: rows with month, year, utilization_rate
    forecast,             \* get_capacity_forecast: forecast (a dict keyed by <<year, month>>)
    forecast_i,           \* get_capacity_forecast: i of `for i in range(months_ahead)`
    meetings_by_day,      \* day -> list of meetings (calendar events or manual entries)
    work_hours_per_day    \* work_hours_per_day of the organize-tasks routes

allocVars == <<mode, pc, resources, projects, plans, project_index, required_capacity,
               resource_index, resources_sorted, resource_efficiency, cursor>>

schedVars == <<tasks, work_days, available_hours_by_day, proposal, sorted_tasks, schedule,
               unassigned_tasks, task_index, remaining_hours, current_day_idx,
               current_day_hours, day_index, utilization_percentage, ai_response>>

reportVars == <<summary, recommendations, resources_at_start>>

forecastVars == <<now, months_ahead, historical_plans, forecast, forecast_i>>

allocVars_but_pc == <<mode, resources, projects, plans, project_index, required_capacity,
                      resource_index, resources_sorted, resource_efficiency, cursor>>

meetingVars == <<meetings_by_day, work_hours_per_day>>

vars == <<allocVars, schedVars, reportVars, forecastVars, meetingVars>>

(* ------------------------------ helpers ------------------------------- *)
Min(a, b) == IF a <= b THEN a ELSE b
Max(a, b) == IF a >= b THEN a ELSE b

RECURSIVE SumSeq(_)
SumSeq(s) == IF s = <<>> THEN 0 ELSE Head(s) + SumSeq(Tail(s))

Range(f) == {f[x] : x \in DOMAIN f}

\* A variant that is not stable: elements that compare equal come out in reverse
\* input order.
StableSortTiesReversed(s, before) ==
    LET n == Len(s)
        Pos(i) == 1 + Cardinality({j \in 1..n :
                        \/ <<s[j], s[i]>> \in before
                        \/ (<<s[i], s[j]>> \notin before /\ j > i)})
    IN  [k \in 1..n |-> s[CHOOSE i \in 1..n : Pos(i) = k]]

\* Python's list.sort / sorted: a stable sort.  `before` holds the pairs <<a, b>>
\* of elements where a sorts strictly before b; elements that compare equal keep
\* their relative input order (with reverse=True too).
StableSort(s, before) ==
    LET n == Len(s)
        Pos(i) == 1 + Cardinality({j \in 1..n :
                        \/ <<s[j], s[i]>> \in before
                        \/ (<<s[i], s[j]>> \notin before /\ j < i)})
    IN  [k \in 1..n |-> s[CHOOSE i \in 1..n : Pos(i) = k]]

_get_priority_score(priority) ==
    CASE priority = "low" -> 1
      [] priority = "medium" -> 2
      [] priority = "high" -> 3
      [] priority = "critical" -> 4
      [] OTHER -> 2

\* base_score in tenths: 0.5, +0.2 type match, +0.1 skills, +0.1 utilization > 0.8.
_calculate_efficiency_score(resource, project, allocation) ==
    LET type_bonus == IF resource.type = "human" /\ project.mentions_human THEN 2 ELSE 0
        skill_bonus == IF "jira_user" \in resource.skills THEN 1 ELSE 0
        util_bonus == IF 10 * allocation > 8 * resource.capacity THEN 1 ELSE 0
    IN  Min(5 + type_bonus + skill_bonus + util_bonus, 10)

\* A variant that takes the whole requirement, whatever the resource has left.
AllocationUncapped(required, resource) == required

\* allocation = min(required_capacity, resource.available_capacity)
Allocation(required, resource) == Min(required, resource.available_capacity)

\* CapacityPlan(resource_id, project_id, planned_capacity, utilization_rate, efficiency_score)
CapacityPlan(resource_id, resource, project, allocation, efficiency) ==
    [resource_id |-> resource_id,
     project_id |-> project.id,
     planned_capacity |-> allocation,
     utilization_rate |-> <<allocation, resource.capacity>>,
     efficiency_score |-> efficiency]

\* A variant that forgets to take the allocation off the resource.
ConsumeNothing(rs, i, allocation) == rs

\* resource.available_capacity -= allocation
Consume(rs, i, allocation) ==
    [rs EXCEPT ![i].available_capacity = @ - allocation]

RequirementOf(ps, i) == IF i <= Len(ps) THEN ps[i].capacity ELSE 0

\* {} : the empty dict
EmptyDict == [k \in {} |-> 0]

\* d.get(key, default)
Get(d, key, default) == IF key \in DOMAIN d THEN d[key] ELSE default

\* Ratios are exact fractions <<numerator, denominator>>, denominator > 0.
Frac(n, d) == <<n, d>>

RECURSIVE GCD(_, _)
GCD(a, b) == IF b = 0 THEN a ELSE GCD(b, a % b)

\* The same ratio in lowest terms.
Reduced(f) ==
    LET g == GCD(f[1], f[2]) IN IF g = 0 THEN f ELSE <<f[1] \div g, f[2] \div g>>

FracAdd(a, b) == Reduced(<<a[1] * b[2] + b[1] * a[2], a[2] * b[2]>>)

\* a < n/d and a > n/d
FracLess(a, n, d) == a[1] * d < n * a[2]
FracGreater(a, n, d) == a[1] * d > n * a[2]

RECURSIVE FracSum(_)
FracSum(s) == IF s = <<>> THEN Frac(0, 1) ELSE FracAdd(Head(s), FracSum(Tail(s)))

\* sum(values) / len(values), len(values) > 0
FracMean(s) == LET total == FracSum(s) IN Reduced(<<total[1], total[2] * Len(s)>>)

(* ------------------------------ inputs -------------------------------- *)
\* Resource rows the planning request may find: capacity, available_capacity,
\* cost_per_unit, type and skills.  The first one is the row that
\* _create_default_resources builds, scaled to 2 units.
Res(capacity, available, cost, type, skills) ==
    [capacity |-> capacity, available_capacity |-> available, cost_per_unit |-> cost,
     type |-> type, skills |-> skills]

FreshResourceRows ==
    {Res(2, 2, 1, "human", {"jira_user"}),
     Res(2, 2, 2, "human", {}),
     Res(2, 2, 1, "equipment", {}),
     Res(1, 1, 2, "equipment", {"jira_user"}),
     Res(1, 1, 1, "human", {}),
     Res(3, 3, 2, "facility", {})}

\* Rows whose capacity is already partly or fully taken when the request starts.
UsedResourceRows ==
    {Res(2, 1, 2, "human", {"jira_user"}),
     Res(1, 0, 1, "equipment", {})}

\* Project rows: requirements['capacity'], priority, and whether str(requirements)
\* contains 'human'.
Proj(capacity, priority, mentions_human) ==
    [capacity |-> capacity, priority |-> priority, mentions_human |-> mentions_human]

ProjectRows ==
    {Proj(0, "low", FALSE),
     Proj(1, "high", TRUE),
     Proj(1, "low", FALSE),
     Proj(2, "medium", TRUE),
     Proj(3, "critical", FALSE),
     Proj(3, "low", TRUE)}

ResourceLists(rows) == UNION {[1..n -> rows] : n \in 0..MaxRes}

ProjectLists ==
    UNION {{[i \in 1..n |-> [id |-> i, capacity |-> f[i].capacity,
                              priority |-> f[i].priority,
                              mentions_human |-> f[i].mentions_human]] :
              f \in [1..n -> ProjectRows]} : n \in 0..MaxProj}

\* The over-capacity scenario: one resource (capacity 40, available 40, cost 10),
\* one project (required capacity 50, priority high), load balancing alone.
ScenarioResources == <<Res(40, 40, 10, "human", {"jira_user"})>>

ScenarioProjects ==
    <<[id |-> 1, capacity |-> 50, priority |-> "high", mentions_human |-> FALSE]>>

\* A planning request over costly resources: two units at 600000 each.
CostlyResources == <<Res(2, 2, 600000, "facility", {})>>

CostlyProjects ==
    <<[id |-> 1, capacity |-> 2, priority |-> "low", mentions_human |-> FALSE]>>

\* The scheduler's variables while the allocation engine runs.
SchedulerIdle ==
    /\ tasks = <<>>
    /\ work_days = <<>>
    /\ available_hours_by_day = <<>>
    /\ proposal = [schedule |-> <<>>, unassigned_tasks |-> <<>>]
    /\ sorted_tasks = <<>>
    /\ schedule = <<>>
    /\ unassigned_tasks = <<>>
    /\ task_index = 1
    /\ remaining_hours = 0
    /\ current_day_idx = 0
    /\ current_day_hours = 0
    /\ day_index = 1
    /\ utilization_percentage = 0
    /\ ai_response = "none"

\* The forecast's variables while another entry point runs.
ForecastIdle ==
    /\ now = <<0, 0, 0>>
    /\ months_ahead = 0
    /\ historical_plans = <<>>
    /\ forecast = EmptyDict
    /\ forecast_i = 0

\* The meeting inputs of the organize-tasks routes while another entry point runs.
MeetingsIdle ==
    /\ meetings_by_day = EmptyDict
    /\ work_hours_per_day = 0

FirstPc(m) ==
    CASE m = "cost" -> "cost_start"
      [] m = "efficiency" -> "eff_rank"
      [] OTHER -> "lb_start"

InitAlloc ==
    /\ \/ /\ mode = "plan"
          /\ resources \in ResourceLists(FreshResourceRows \cup UsedResourceRows)
          /\ projects \in ProjectLists
       \/ /\ mode \in {"load_balancing", "cost", "efficiency"}
          /\ resources \in ResourceLists(FreshResourceRows)
          /\ projects \in ProjectLists
       \/ /\ mode = "load_balancing"
          /\ resources = ScenarioResources
          /\ projects = ScenarioProjects
       \/ /\ mode = "plan"
          /\ resources = CostlyResources
          /\ projects = CostlyProjects
    /\ pc = FirstPc(mode)
    /\ plans = <<>>
    /\ project_index = 1
    /\ required_capacity = RequirementOf(projects, 1)
    /\ resource_index = 0
    /\ resources_sorted = <<>>
    /\ resource_efficiency = <<>>
    /\ cursor = 1
    /\ summary = EmptyDict
    /\ recommendations = <<>>
    /\ resources_at_start = resources
    /\ SchedulerIdle
    /\ ForecastIdle
    /\ MeetingsIdle

(* --------------------- generate_capacity_plan ------------------------- *)
\* Where an algorithm returns to: the next algorithm of generate_capacity_plan,
\* or the caller when the algorithm was invoked on its own.
ReturnFrom(algorithm) ==
    IF mode = "plan"
    THEN CASE algorithm = "load_balancing" -> "cost_start"
           [] algorithm = "cost" -> "eff_rank"
           [] OTHER -> "summarize"
    ELSE "done"

EnterNext(target) ==
    /\ pc' = target
    /\ project_index' = 1
    /\ required_capacity' = RequirementOf(projects, 1)
    /\ cursor' = 1

(* --------------------- _load_balancing_algorithm ---------------------- *)
TotalRequired == SumSeq([i \in 1..Len(projects) |-> projects[i].capacity])
TotalAvailable == SumSeq([i \in 1..Len(resources) |-> resources[i].available_capacity])

PriorityBefore(p, q) == _get_priority_score(p.priority) > _get_priority_score(q.priority)

LBStart ==
    /\ pc = "lb_start"
    /\ projects' = IF TotalRequired > TotalAvailable
                   THEN StableSort(projects,
                            {pq \in Range(projects) \X Range(projects) :
                                PriorityBefore(pq[1], pq[2])})
                   ELSE projects
    /\ resource_index' = 0
    /\ project_index' = 1
    /\ required_capacity' = RequirementOf(projects', 1)
    /\ pc' = "lb_loop"
    /\ UNCHANGED <<schedVars, reportVars, forecastVars, meetingVars>>
    /\ UNCHANGED <<mode, resources, plans, resources_sorted, resource_efficiency, cursor>>

\* while required_capacity > 0 and resource_index < len(resources)
LBWhileCondition == required_capacity > 0 /\ resource_index < Len(resources)

\* One iteration of the while loop body.
LBIterate ==
    /\ pc = "lb_loop"
    /\ project_index <= Len(projects)
    /\ LBWhileCondition
    /\ LET i == resource_index + 1
           resource == resources[i]
           project == projects[project_index]
           allocation == Allocation(required_capacity, resource)
       IN  /\ IF allocation > 0
              THEN /\ plans' = Append(plans,
                          CapacityPlan(i, resource, project, allocation,
                              _calculate_efficiency_score(resource, project, allocation)))
                   /\ required_capacity' = required_capacity - allocation
                   /\ resources' = Consume(resources, i, allocation)
              ELSE UNCHANGED <<plans, required_capacity, resources>>
           /\ resource_index' = (resource_index + 1) % Len(resources)
    /\ UNCHANGED <<schedVars, reportVars, forecastVars, meetingVars>>
    /\ UNCHANGED <<mode, pc, projects, project_index, resources_sorted,
                   resource_efficiency, cursor>>

LBNextProject ==
    /\ pc = "lb_loop"
    /\ project_index <= Len(projects)
    /\ ~LBWhileCondition
    /\ project_index' = project_index + 1
    /\ required_capacity' = RequirementOf(projects, project_index + 1)
    /\ UNCHANGED <<schedVars, reportVars, forecastVars, meetingVars>>
    /\ UNCHANGED <<mode, pc, resources, projects, plans, resource_index,
                   resources_sorted, resource_efficiency, cursor>>

LBReturn ==
    /\ pc = "lb_loop"
    /\ project_index > Len(projects)
    /\ EnterNext(ReturnFrom("load_balancing"))
    /\ UNCHANGED <<schedVars, reportVars, forecastVars, meetingVars>>
    /\ UNCHANGED <<mode, resources, projects, plans, resource_index,
                   resources_sorted, resource_efficiency>>

(* -------------------- _cost_optimization_algorithm -------------------- *)
CostBefore(i, j) == resources[i].cost_per_unit < resources[j].cost_per_unit

CostStart ==
    /\ pc = "cost_start"
    /\ resources_sorted' = StableSort([i \in 1..Len(resources) |-> i],
               {ij \in (1..Len(resources)) \X (1..Len(resources)) : CostBefore(ij[1], ij[2])})
    /\ EnterNext("cost_loop")
    /\ UNCHANGED <<schedVars, reportVars, forecastVars, meetingVars>>
    /\ UNCHANGED <<mode, resources, projects, plans, resource_index, resource_efficiency>>

\* One iteration of `for resource in resources_sorted` that does not break.
CostIterate ==
    /\ pc = "cost_loop"
    /\ project_index <= Len(projects)
    /\ cursor <= Len(resources_sorted)
    /\ required_capacity > 0
    /\ LET i == resources_sorted[cursor]
           resource == resources[i]
           project == projects[project_index]
           allocation == Allocation(required_capacity, resource)
       IN  IF resource.available_capacity > 0
           THEN /\ plans' = Append(plans,
                       CapacityPlan(i, resource, project, allocation,
                           _calculate_efficiency_score(resource, project, allocation)))
                /\ required_capacity' = required_capacity - allocation
                /\ resources' = Consume(resources, i, allocation)
           ELSE UNCHANGED <<plans, required_capacity, resources>>
    /\ cursor' = cursor + 1
    /\ UNCHANGED <<schedVars, reportVars, forecastVars, meetingVars>>
    /\ UNCHANGED <<mode, pc, projects, project_index, resource_index,
                   resources_sorted, resource_efficiency>>

\* The inner loop ends (break, or resources_sorted used up): next project.
CostNextProject ==
    /\ pc = "cost_loop"
    /\ project_index <= Len(projects)
    /\ (cursor > Len(resources_sorted) \/ required_capacity <= 0)
    /\ project_index' = project_index + 1
    /\ required_capacity' = RequirementOf(projects, project_index + 1)
    /\ cursor' = 1
    /\ UNCHANGED <<schedVars, reportVars, forecastVars, meetingVars>>
    /\ UNCHANGED <<mode, pc, resources, projects, plans, resource_index,
                   resources_sorted, resource_efficiency>>

CostReturn ==
    /\ pc = "cost_loop"
    /\ project_index > Len(projects)
    /\ EnterNext(ReturnFrom("cost"))
    /\ UNCHANGED <<schedVars, reportVars, forecastVars, meetingVars>>
    /\ UNCHANGED <<mode, resources, projects, plans, resource_index,
                   resources_sorted, resource_efficiency>>

(* ----------------- _efficiency_maximization_algorithm ----------------- *)
EfficiencyBefore(a, b) == a[2] > b[2]

RECURSIVE SelectSeqIdxAll(_, _)
\* A variant that ranks every resource, drained or not.
SelectSeqIdxAll(i, project) ==
    IF i > Len(resources) THEN <<>>
    ELSE <<<<i, _calculate_efficiency_score(resources[i], project,
                   Min(project.capacity, resources[i].available_capacity))>>>>
         \o SelectSeqIdxAll(i + 1, project)

RECURSIVE SelectSeqIdx(_, _)
\* [(resource, efficiency) for resource in resources if resource.available_capacity > 0]
SelectSeqIdx(i, project) ==
    IF i > Len(resources) THEN <<>>
    ELSE IF resources[i].available_capacity > 0
         THEN <<<<i, _calculate_efficiency_score(resources[i], project,
                        Min(project.capacity, resources[i].available_capacity))>>>>
              \o SelectSeqIdx(i + 1, project)
         ELSE SelectSeqIdx(i + 1, project)

\* Build and sort resource_efficiency for the current project.
EffRank ==
    /\ pc = "eff_rank"
    /\ project_index <= Len(projects)
    /\ LET candidates == SelectSeqIdx(1, projects[project_index])
       IN  resource_efficiency' =
               StableSort(candidates,
                   {ab \in Range(candidates) \X Range(candidates) :
                       EfficiencyBefore(ab[1], ab[2])})
    /\ required_capacity' = projects[project_index].capacity
    /\ cursor' = 1
    /\ pc' = "eff_loop"
    /\ UNCHANGED <<schedVars, reportVars, forecastVars, meetingVars>>
    /\ UNCHANGED <<mode, resources, projects, plans, project_index, resource_index,
                   resources_sorted>>

\* One iteration of `for resource, efficiency in resource_efficiency` that does not break.
EffIterate ==
    /\ pc = "eff_loop"
    /\ cursor <= Len(resource_efficiency)
    /\ required_capacity > 0
    /\ LET i == resource_efficiency[cursor][1]
           efficiency == resource_efficiency[cursor][2]
           resource == resources[i]
           project == projects[project_index]
           allocation == Allocation(required_capacity, resource)
       IN  /\ plans' = Append(plans, CapacityPlan(i, resource, project, allocation, efficiency))
           /\ required_capacity' = required_capacity - allocation
           /\ resources' = Consume(resources, i, allocation)
    /\ cursor' = cursor + 1
    /\ UNCHANGED <<schedVars, reportVars, forecastVars, meetingVars>>
    /\ UNCHANGED <<mode, pc, projects, project_index, resource_index,
                   resources_sorted, resource_efficiency>>

EffNextProject ==
    /\ pc = "eff_loop"
    /\ (cursor > Len(resource_efficiency) \/ required_capacity <= 0)
    /\ project_index' = project_index + 1
    /\ required_capacity' = RequirementOf(projects, project_index + 1)
    /\ cursor' = 1
    /\ pc' = "eff_rank"
    /\ UNCHANGED <<schedVars, reportVars, forecastVars, meetingVars>>
    /\ UNCHANGED <<mode, resources, projects, plans, resource_index,
                   resources_sorted, resource_efficiency>>

EffReturn ==
    /\ pc = "eff_rank"
    /\ project_index > Len(projects)
    /\ EnterNext(ReturnFrom("efficiency"))
    /\ UNCHANGED <<schedVars, reportVars, forecastVars, meetingVars>>
    /\ UNCHANGED <<mode, resources, projects, plans, resource_index,
                   resources_sorted, resource_efficiency>>

(* ---------------------- _generate_summary_statistics ------------------ *)
\* The summary dict.  total_available_capacity sums resource.capacity; plan.resource
\* is read as the resource whose id the plan carries.  The two averages are kept
\* exact (the code's float mean of seven or more scores can fall one ulp short).
SummaryOf(ps, rs, pjs) ==
    LET total_planned_capacity == SumSeq([k \in 1..Len(ps) |-> ps[k].planned_capacity])
        total_available_capacity == SumSeq([i \in 1..Len(rs) |-> rs[i].capacity])
        total_required_capacity == SumSeq([j \in 1..Len(pjs) |-> pjs[j].capacity])
    IN  [total_planned_capacity |-> total_planned_capacity,
         total_available_capacity |-> total_available_capacity,
         total_required_capacity |-> total_required_capacity,
         capacity_utilization_rate |->
             IF total_available_capacity > 0
             THEN Frac(total_planned_capacity, total_available_capacity)
             ELSE Frac(0, 1),
         requirement_satisfaction_rate |->
             IF total_required_capacity > 0
             THEN Frac(total_planned_capacity, total_required_capacity)
             ELSE Frac(0, 1),
         average_utilization_rate |->
             FracMean([k \in 1..Len(ps) |-> ps[k].utilization_rate]),
         average_efficiency_score |->
             FracMean([k \in 1..Len(ps) |-> Frac(ps[k].efficiency_score, 10)]),
         total_cost |->
             SumSeq([k \in 1..Len(ps) |->
                        ps[k].planned_capacity * rs[ps[k].resource_id].cost_per_unit]),
         number_of_plans |-> Len(ps),
         number_of_resources |-> Len(rs),
         number_of_projects |-> Len(pjs)]

\* A variant without the `if not plans` guard.
SummaryUnguarded(ps, rs, pjs) == SummaryOf(ps, rs, pjs)

\* if not plans: return {}
_generate_summary_statistics(ps, rs, pjs) ==
    IF ps = <<>> THEN EmptyDict ELSE SummaryOf(ps, rs, pjs)

\* summary = self._generate_summary_statistics(plans, resources, projects)
Summarize ==
    /\ pc = "summarize"
    /\ summary' = _generate_summary_statistics(plans, resources, projects)
    /\ pc' = "recommend"
    /\ UNCHANGED <<schedVars, forecastVars, meetingVars, allocVars_but_pc, recommendations,
                   resources_at_start>>

(* ------------------------ _generate_recommendations ------------------- *)
HighCostThreshold == 1000000

IncreaseUtilization == "Consider increasing resource utilization to improve efficiency"
HighUtilization ==
    "High utilization detected - consider adding more resources to prevent bottlenecks"
RequirementsUnsatisfied ==
    "Not all project requirements can be satisfied with current resources"
LowEfficiencyScores == "Low efficiency scores detected - review resource-project assignments"
HighTotalCost == "High total cost - consider cost optimization strategies"
MoreProjectsThanResources ==
    "More projects than resources - consider resource sharing or additional resources"

\* A variant that also fires at a mean efficiency of exactly 0.6.
LowEfficiencyInclusive(s) ==
    ~FracGreater(Get(s, "average_efficiency_score", Frac(0, 1)), 6, 10)

\* summary.get("average_efficiency_score", 0) < 0.6
LowEfficiency(s) == FracLess(Get(s, "average_efficiency_score", Frac(0, 1)), 6, 10)

\* The list of messages; a missing entry of the summary reads as 0.
_generate_recommendations(s) ==
    LET capacity_utilization_rate == Get(s, "capacity_utilization_rate", Frac(0, 1))
    IN  (IF FracLess(capacity_utilization_rate, 7, 10) THEN <<IncreaseUtilization>>
         ELSE IF FracGreater(capacity_utilization_rate, 95, 100) THEN <<HighUtilization>>
         ELSE <<>>)
        \o (IF FracLess(Get(s, "requirement_satisfaction_rate", Frac(0, 1)), 9, 10)
            THEN <<RequirementsUnsatisfied>> ELSE <<>>)
        \o (IF LowEfficiency(s) THEN <<LowEfficiencyScores>> ELSE <<>>)
        \o (IF Get(s, "total_cost", 0) > HighCostThreshold THEN <<HighTotalCost>> ELSE <<>>)
        \o (IF Get(s, "number_of_resources", 0) < Get(s, "number_of_projects", 0)
            THEN <<MoreProjectsThanResources>> ELSE <<>>)

\* recommendations = self._generate_recommendations(plans, summary, request); return
Recommend ==
    /\ pc = "recommend"
    /\ recommendations' = _generate_recommendations(summary)
    /\ pc' = "done"
    /\ UNCHANGED <<schedVars, forecastVars, meetingVars, allocVars_but_pc, summary,
                   resources_at_start>>

(* ====================================================================== *)
(*                  Day-scheduling engine (AIService)                      *)
(* ====================================================================== *)
Weekdays == <<"Monday", "Tuesday", "Wednesday", "Thursday", "Friday">>

\* task_data rows: key, priority, due_date (0 is the empty string, larger is a
\* later date), remaining_hours.  Keys are distinct, as issue keys are.
Task(key, priority, due_date, hours) ==
    [key |-> key, priority |-> priority, due_date |-> due_date, remaining_hours |-> hours]

TaskRows ==
    {Task("A", "High", 2, 3),
     Task("B", "High", 1, 2),
     Task("C", "Medium", 0, 1),
     Task("D", "Low", 1, 0),
     Task("E", "High", 1, 2),
     Task("F", "Highest", 0, 4)}

\* The tasks the advisory proposals below speak of.
ProposedTaskRows == {t \in TaskRows : t.key \in {"A", "B", "C", "D"}}

HoursChoices == {0, 2, 3}

Segment(key, hours) == [task_key |-> key, allocated_hours |-> hours]

\* What the advisory service may propose for one day.
DayProposals ==
    {<<Segment("A", 1)>>,
     <<Segment("A", 3)>>,
     <<Segment("A", 2), Segment("B", 2)>>,
     <<Segment("B", 3), Segment("A", 3)>>,
     <<Segment("C", 2), Segment("D", 1)>>,
     <<Segment("GHOST", 1)>>}

\* What else a proposal may carry: a day that is no work day, an unassigned entry.
\* <<extra days, unassigned_tasks>>
ProposalExtras ==
    {<<{}, <<>>>>,
     <<{"Saturday"}, <<>>>>,
     <<{}, <<[task_key |-> "B", remaining |-> 2]>>>>}

\* What the advisory call may come to, other than a well-formed proposal: the call
\* raises; the text holds no braces; json.loads raises; the JSON's 'schedule' is no
\* mapping of days to segment lists.
UnusableResponses == {"api_error", "no_json", "invalid_json", "bad_shape"}

TaskLists(rows) ==
    UNION {{f \in [1..n -> rows] : \A i, j \in 1..n : i # j => f[i].key # f[j].key} :
              n \in 0..MaxTasks}

WorkDayLists == {SubSeq(Weekdays, 1, n) : n \in 1..MaxDays}

\* The single-day scenario: priorities [Low, High, Medium], remaining hours [4, 10, 6],
\* one work day with 8 available hours.
ScenarioTasks ==
    <<Task("S-LOW", "Low", 0, 4), Task("S-HIGH", "High", 0, 10), Task("S-MED", "Medium", 0, 6)>>

\* The allocation engine's variables while the scheduler runs.
AllocatorIdle ==
    /\ resources = <<>>
    /\ projects = <<>>
    /\ plans = <<>>
    /\ project_index = 1
    /\ required_capacity = 0
    /\ resource_index = 0
    /\ resources_sorted = <<>>
    /\ resource_efficiency = <<>>
    /\ cursor = 1
    /\ summary = EmptyDict
    /\ recommendations = <<>>
    /\ resources_at_start = <<>>

InitSched ==
    /\ \/ /\ mode = "fallback"
          /\ tasks \in TaskLists(TaskRows)
          /\ work_days \in WorkDayLists
          /\ available_hours_by_day \in [Range(work_days) -> HoursChoices \cup {1}]
          /\ proposal = [schedule |-> <<>>, unassigned_tasks |-> <<>>]
          /\ ai_response = "none"
       \/ /\ mode = "fallback"
          /\ tasks = ScenarioTasks
          /\ work_days = <<"Monday">>
          /\ available_hours_by_day = [d \in {"Monday"} |-> 8]
          /\ proposal = [schedule |-> <<>>, unassigned_tasks |-> <<>>]
          /\ ai_response = "none"
       \/ /\ mode = "validate"
          /\ tasks \in TaskLists(ProposedTaskRows)
          /\ work_days \in WorkDayLists
          /\ available_hours_by_day \in [Range(work_days) -> HoursChoices]
          /\ \E days \in SUBSET Range(work_days), extra \in ProposalExtras :
                \E sch \in [days \cup extra[1] -> DayProposals] :
                    /\ \A d \in extra[1] : sch[d] = <<Segment("A", 1)>>
                    /\ proposal = [schedule |-> sch, unassigned_tasks |-> extra[2]]
          /\ ai_response = "json"
       \/ /\ mode = "organize"
          /\ tasks \in TaskLists(ProposedTaskRows)
          /\ work_days \in WorkDayLists
          /\ available_hours_by_day \in [Range(work_days) -> HoursChoices]
          /\ \/ /\ ai_response \in UnusableResponses
                /\ proposal = [schedule |-> <<>>, unassigned_tasks |-> <<>>]
             \/ /\ ai_response = "json"
                /\ \E day_proposal \in DayProposals :
                       proposal = [schedule |-> [d \in {"Monday"} |-> day_proposal],
                                   unassigned_tasks |-> <<>>]
    /\ pc = CASE mode = "fallback" -> "fb_start"
              [] mode = "validate" -> "v_start"
              [] OTHER -> "org_call"
    /\ sorted_tasks = <<>>
    /\ schedule = <<>>
    /\ unassigned_tasks = <<>>
    /\ task_index = 1
    /\ remaining_hours = 0
    /\ current_day_idx = 0
    /\ current_day_hours = 0
    /\ day_index = 1
    /\ utilization_percentage = 0
    /\ AllocatorIdle
    /\ ForecastIdle
    /\ MeetingsIdle

(* ------------------------------ helpers ------------------------------- *)
\* priority_order.get(priority, 1)
priority_order(priority) ==
    CASE priority = "High" -> 3
      [] priority = "Medium" -> 2
      [] priority = "Low" -> 1
      [] OTHER -> 1

\* A variant without reverse=True: the smaller key tuple first.
TaskBeforeAscending(a, b) ==
    \/ priority_order(a.priority) < priority_order(b.priority)
    \/ /\ priority_order(a.priority) = priority_order(b.priority)
       /\ \/ a.due_date < b.due_date
          \/ (a.due_date = b.due_date /\ a.remaining_hours < b.remaining_hours)

\* sorted(..., key=(priority, due_date, remaining_hours), reverse=True):
\* a sorts before b when its key tuple is the larger one.
TaskBefore(a, b) ==
    \/ priority_order(a.priority) > priority_order(b.priority)
    \/ /\ priority_order(a.priority) = priority_order(b.priority)
       /\ \/ a.due_date > b.due_date
          \/ (a.due_date = b.due_date /\ a.remaining_hours > b.remaining_hours)

HoursOf(segments) == SumSeq([k \in 1..Len(segments) |-> segments[k].allocated_hours])

RECURSIVE SumOver(_, _)
\* sum(f[x] for x in S)
SumOver(f, S) ==
    IF S = {} THEN 0
    ELSE LET x == CHOOSE y \in S : TRUE IN f[x] + SumOver(f, S \ {x})

\* sum of allocated_hours over every day of a schedule
TotalAllocated(sch) == SumOver([d \in DOMAIN sch |-> HoursOf(sch[d])], DOMAIN sch)

\* sum(available_hours_by_day.values())
TotalAvailableHours == SumOver(available_hours_by_day, DOMAIN available_hours_by_day)

\* round(allocated / available * 100, 1), in tenths of a percent (ties to even).
RoundedPercentage(allocated, available) ==
    LET n == 1000 * allocated
        q == n \div available
        r == n % available
    IN  IF 2 * r < available THEN q
        ELSE IF 2 * r > available THEN q + 1
        ELSE IF q % 2 = 0 THEN q ELSE q + 1

\* A variant that allocates all the task needs, whatever the day has left.
HoursToAllocateUncapped(remaining, available_today) == remaining

\* hours_to_allocate = min(remaining_hours, available_hours_today)
HoursToAllocate(remaining, available_today) == Min(remaining, available_today)

(* ------------------------ _fallback_organization ---------------------- *)
\* A variant that reports every task, finished or not.
ReportUnassignedAlways(unassigned, task, remaining) ==
    Append(unassigned, [task_key |-> task.key, remaining |-> remaining])

\* if remaining_hours > 0: unassigned_tasks.append({task_key, "still needs {remaining_hours}h"})
ReportUnassigned(unassigned, task, remaining) ==
    IF remaining > 0
    THEN Append(unassigned, [task_key |-> task.key, remaining |-> remaining])
    ELSE unassigned

\* A variant that moves to the next day after every segment.
DayIsFullAlways(day_hours, available_hours) == TRUE

\* if current_day_hours >= available_hours_by_day.get(current_day, work_hours_per_day)
DayIsFull(day_hours, available_hours) == day_hours >= available_hours

FBStart ==
    /\ pc = "fb_start"
    /\ sorted_tasks' = StableSort(tasks,
                           {ab \in Range(tasks) \X Range(tasks) : TaskBefore(ab[1], ab[2])})
    /\ schedule' = [d \in Range(work_days) |-> <<>>]
    /\ unassigned_tasks' = <<>>
    /\ current_day_idx' = 0
    /\ current_day_hours' = 0
    /\ task_index' = 1
    /\ remaining_hours' = IF sorted_tasks' = <<>> THEN 0 ELSE sorted_tasks'[1].remaining_hours
    /\ pc' = "fb_loop"
    /\ UNCHANGED <<allocVars_but_pc, reportVars, forecastVars, meetingVars>>
    /\ UNCHANGED <<tasks, work_days, available_hours_by_day, proposal, ai_response, day_index,
                   utilization_percentage>>

\* while remaining_hours > 0 and current_day_idx < len(work_days)
FBWhileCondition == remaining_hours > 0 /\ current_day_idx < Len(work_days)

\* One iteration of the while loop body.
FBIterate ==
    /\ pc = "fb_loop"
    /\ task_index <= Len(sorted_tasks)
    /\ FBWhileCondition
    /\ LET task == sorted_tasks[task_index]
           current_day == work_days[current_day_idx + 1]
           available_hours_today == available_hours_by_day[current_day] - current_day_hours
           hours_to_allocate == HoursToAllocate(remaining_hours, available_hours_today)
       IN  IF available_hours_today > 0
           THEN /\ schedule' = [schedule EXCEPT ![current_day] =
                                    Append(@, Segment(task.key, hours_to_allocate))]
                /\ remaining_hours' = remaining_hours - hours_to_allocate
                /\ IF DayIsFull(current_day_hours + hours_to_allocate,
                                available_hours_by_day[current_day])
                   THEN /\ current_day_idx' = current_day_idx + 1
                        /\ current_day_hours' = 0
                   ELSE /\ current_day_idx' = current_day_idx
                        /\ current_day_hours' = current_day_hours + hours_to_allocate
           ELSE /\ current_day_idx' = current_day_idx + 1
                /\ current_day_hours' = 0
                /\ UNCHANGED <<schedule, remaining_hours>>
    /\ UNCHANGED <<allocVars, reportVars, forecastVars, meetingVars>>
    /\ UNCHANGED <<tasks, work_days, available_hours_by_day, proposal, ai_response, sorted_tasks,
                   unassigned_tasks, task_index, day_index, utilization_percentage>>

\* The while loop has ended: report what is left of the task, take the next task.
FBNextTask ==
    /\ pc = "fb_loop"
    /\ task_index <= Len(sorted_tasks)
    /\ ~FBWhileCondition
    /\ unassigned_tasks' =
           ReportUnassigned(unassigned_tasks, sorted_tasks[task_index], remaining_hours)
    /\ task_index' = task_index + 1
    /\ remaining_hours' = IF task_index + 1 <= Len(sorted_tasks)
                          THEN sorted_tasks[task_index + 1].remaining_hours
                          ELSE 0
    /\ UNCHANGED <<allocVars, reportVars, forecastVars, meetingVars>>
    /\ UNCHANGED <<tasks, work_days, available_hours_by_day, proposal, ai_response, sorted_tasks, schedule,
                   current_day_idx, current_day_hours, day_index, utilization_percentage>>

\* The summary: total_allocated_hours / total_available_hours * 100 divides by zero
\* (ZeroDivisionError) when no day has hours left.
FBFinish ==
    /\ pc = "fb_loop"
    /\ task_index > Len(sorted_tasks)
    /\ IF TotalAvailableHours = 0
       THEN /\ pc' = "error"
            /\ UNCHANGED utilization_percentage
       ELSE /\ pc' = "done"
            /\ utilization_percentage' =
                   RoundedPercentage(TotalAllocated(schedule), TotalAvailableHours)
    /\ UNCHANGED <<allocVars_but_pc, reportVars, forecastVars, meetingVars>>
    /\ UNCHANGED <<tasks, work_days, available_hours_by_day, proposal, ai_response, sorted_tasks, schedule,
                   unassigned_tasks, task_index, remaining_hours, current_day_idx,
                   current_day_hours, day_index>>

(* ------------------- organize_tasks, _parse_ai_response --------------- *)
\* The call to the advisory service: an exception leads to the fallback.
OrganizeCall ==
    /\ pc = "org_call"
    /\ pc' = IF ai_response = "api_error" THEN "fb_start" ELSE "org_parse"
    /\ UNCHANGED <<allocVars_but_pc, reportVars, forecastVars, meetingVars>>
    /\ UNCHANGED <<tasks, work_days, available_hours_by_day, proposal, ai_response,
                   sorted_tasks, schedule, unassigned_tasks, task_index, remaining_hours,
                   current_day_idx, current_day_hours, day_index, utilization_percentage>>

\* _parse_ai_response up to json.loads: a ValueError or JSONDecodeError leads to the
\* fallback.
ParseResponse ==
    /\ pc = "org_parse"
    /\ pc' = IF ai_response \in {"no_json", "invalid_json"} THEN "fb_start" ELSE "v_start"
    /\ UNCHANGED <<allocVars_but_pc, reportVars, forecastVars, meetingVars>>
    /\ UNCHANGED <<tasks, work_days, available_hours_by_day, proposal, ai_response,
                   sorted_tasks, schedule, unassigned_tasks, task_index, remaining_hours,
                   current_day_idx, current_day_hours, day_index, utilization_percentage>>

\* Validation raises on a 'schedule' that is no mapping (TypeError in the
\* initialisation of the work days); _parse_ai_response catches it and falls back.
ValidationRaises ==
    /\ pc = "v_start"
    /\ ai_response = "bad_shape"
    /\ pc' = "fb_start"
    /\ UNCHANGED <<allocVars_but_pc, reportVars, forecastVars, meetingVars>>
    /\ UNCHANGED <<tasks, work_days, available_hours_by_day, proposal, ai_response,
                   sorted_tasks, schedule, unassigned_tasks, task_index, remaining_hours,
                   current_day_idx, current_day_hours, day_index, utilization_percentage>>

(* -------------------- _validate_and_enhance_schedule ------------------ *)
\* Missing 'schedule' and 'unassigned_tasks' fields and missing work days are filled in.
VStart ==
    /\ pc = "v_start"
    /\ ai_response = "json"
    /\ schedule' = [d \in DOMAIN proposal.schedule \cup Range(work_days) |->
                       IF d \in DOMAIN proposal.schedule THEN proposal.schedule[d] ELSE <<>>]
    /\ unassigned_tasks' = proposal.unassigned_tasks
    /\ day_index' = 1
    /\ pc' = "v_days"
    /\ UNCHANGED <<allocVars_but_pc, reportVars, forecastVars, meetingVars>>
    /\ UNCHANGED <<tasks, work_days, available_hours_by_day, proposal, ai_response, sorted_tasks,
                   task_index, remaining_hours, current_day_idx, current_day_hours,
                   utilization_percentage>>

\* A variant that redistributes over every task, proposed for the day or not.
DayTasksAll(day_schedule) == tasks

\* day_tasks: the tasks, in task order, that have a segment in day_schedule.
DayTasks(day_schedule) ==
    SelectSeq(tasks, LAMBDA task :
        \E k \in 1..Len(day_schedule) : day_schedule[k].task_key = task.key)

RECURSIVE Redistribute(_, _, _)
\* The redistribution loop over day_tasks, from current_day_hours hours used.
Redistribute(day_tasks, available_hours, used) ==
    IF day_tasks = <<>> THEN <<>>
    ELSE LET task == Head(day_tasks)
             available_hours_today == available_hours - used
             hours_to_allocate == HoursToAllocate(task.remaining_hours, available_hours_today)
         IN  IF available_hours_today > 0
             THEN <<Segment(task.key, hours_to_allocate)>>
                  \o Redistribute(Tail(day_tasks), available_hours, used + hours_to_allocate)
             ELSE Redistribute(Tail(day_tasks), available_hours, used)

\* A variant that redistributes every day, over its limit or not.
ValidatedDayAlways(day_schedule, available_hours) ==
    Redistribute(DayTasks(day_schedule), available_hours, 0)

\* The day's list after the limit check.
ValidatedDay(day_schedule, available_hours) ==
    IF HoursOf(day_schedule) > available_hours
    THEN Redistribute(DayTasks(day_schedule), available_hours, 0)
    ELSE day_schedule

\* One iteration of `for day in work_days`.
VDay ==
    /\ pc = "v_days"
    /\ day_index <= Len(work_days)
    /\ LET day == work_days[day_index]
       IN  schedule' = [schedule EXCEPT ![day] =
                            ValidatedDay(schedule[day], available_hours_by_day[day])]
    /\ day_index' = day_index + 1
    /\ UNCHANGED <<allocVars, reportVars, forecastVars, meetingVars>>
    /\ UNCHANGED <<tasks, work_days, available_hours_by_day, proposal, ai_response, sorted_tasks,
                   unassigned_tasks, task_index, remaining_hours, current_day_idx,
                   current_day_hours, utilization_percentage>>

VFinish ==
    /\ pc = "v_days"
    /\ day_index > Len(work_days)
    /\ utilization_percentage' =
           IF TotalAvailableHours > 0
           THEN RoundedPercentage(TotalAllocated(schedule), TotalAvailableHours)
           ELSE 0
    /\ pc' = "done"
    /\ UNCHANGED <<allocVars_but_pc, reportVars, forecastVars, meetingVars>>
    /\ UNCHANGED <<tasks, work_days, available_hours_by_day, proposal, ai_response, sorted_tasks, schedule,
                   unassigned_tasks, task_index, remaining_hours, current_day_idx,
                   current_day_hours, day_index>>

(* ====================================================================== *)
(*              Forecast (CapacityPlanningService.get_capacity_forecast)   *)
(* ====================================================================== *)
IsLeapYear(y) == (y % 4 = 0 /\ y % 100 # 0) \/ y % 400 = 0

DaysInMonth(y, m) ==
    CASE m = 2 -> IF IsLeapYear(y) THEN 29 ELSE 28
      [] m \in {4, 6, 9, 11} -> 30
      [] OTHER -> 31

RECURSIVE AddDays(_, _)
\* date + timedelta(days=n), n >= 0; a date is <<year, month, day>>
AddDays(date, n) ==
    LET y == date[1]
        m == date[2]
        d == date[3]
        left == DaysInMonth(y, m) - d
    IN  IF n <= left THEN <<y, m, d + n>>
        ELSE AddDays(IF m = 12 THEN <<y + 1, 1, 1>> ELSE <<y, m + 1, 1>>, n - left - 1)

\* The days datetime.now() may fall on: every day of a common and of a leap year.
Dates ==
    {date \in ({2023, 2024} \X (1..12) \X (1..31)) :
        date[3] <= DaysInMonth(date[1], date[2])}

\* A row of the capacity_plans table, as far as the forecast reads it.
HistoricalPlan(month, year, utilization_rate) ==
    [month |-> month, year |-> year, utilization_rate |-> utilization_rate]

\* Contents the capacity_plans table may have.
Histories ==
    {<<>>,
     <<HistoricalPlan(2, 2022, Frac(1, 2))>>,
     <<HistoricalPlan(3, 2022, Frac(1, 2)), HistoricalPlan(3, 2021, Frac(1, 1)),
       HistoricalPlan(4, 2022, Frac(1, 4))>>,
     <<HistoricalPlan(3, 2024, Frac(1, 2)), HistoricalPlan(12, 2023, Frac(3, 4))>>,
     <<HistoricalPlan(1, 2022, Frac(1, 2)), HistoricalPlan(1, 2022, Frac(1, 1)),
       HistoricalPlan(1, 2021, Frac(1, 2)), HistoricalPlan(1, 2021, Frac(1, 1)),
       HistoricalPlan(1, 2020, Frac(1, 2)), HistoricalPlan(1, 2020, Frac(1, 1)),
       HistoricalPlan(5, 2022, Frac(1, 1))>>}

InitForecast ==
    /\ mode = "forecast"
    /\ pc = "fc_loop"
    /\ now \in Dates
    /\ months_ahead \in 0..MaxMonths
    /\ historical_plans \in Histories
    /\ forecast = EmptyDict
    /\ forecast_i = 0
    /\ AllocatorIdle
    /\ SchedulerIdle
    /\ MeetingsIdle

\* d[key] = value
Put(d, key, value) == [k \in DOMAIN d \cup {key} |-> IF k = key THEN value ELSE d[k]]

\* self.db.query(CapacityPlan).filter(month == month, year < year).all()
QueryHistoricalPlans(month, year) ==
    SelectSeq(historical_plans, LAMBDA plan : plan.month = month /\ plan.year < year)

\* The entry for a month with historical plans; confidence_level in tenths.
ForecastEntry(plans_found) ==
    [predicted_utilization |->
         FracMean([k \in 1..Len(plans_found) |-> plans_found[k].utilization_rate]),
     confidence_level |-> IF Len(plans_found) > 5 THEN 8 ELSE 6]

\* date = datetime.now() + timedelta(days=30*i)
TargetDate(i) == AddDays(now, 30 * i)

\* One iteration of `for i in range(months_ahead)`.
ForecastIterate ==
    /\ pc = "fc_loop"
    /\ forecast_i < months_ahead
    /\ LET date == TargetDate(forecast_i)
           year == date[1]
           month == date[2]
           found == QueryHistoricalPlans(month, year)
       IN  forecast' = IF found # <<>>
                       THEN Put(forecast, <<year, month>>, ForecastEntry(found))
                       ELSE forecast
    /\ forecast_i' = forecast_i + 1
    /\ UNCHANGED <<allocVars, schedVars, reportVars, meetingVars>>
    /\ UNCHANGED <<now, months_ahead, historical_plans>>

ForecastReturn ==
    /\ pc = "fc_loop"
    /\ forecast_i >= months_ahead
    /\ pc' = "done"
    /\ UNCHANGED <<allocVars_but_pc, schedVars, reportVars, forecastVars, meetingVars>>

(* ====================================================================== *)
(*   Available hours after meetings (OutlookService, organize-tasks routes) *)
(* ====================================================================== *)
\* A meeting, as far as the deduction reads it.
Meeting(duration_hours, is_all_day) ==
    [duration_hours |-> duration_hours, is_all_day |-> is_all_day]

\* What one day may hold: nothing, short meetings, an all-day event, a day with
\* more meeting hours than work hours.
DayMeetings ==
    {<<>>,
     <<Meeting(1, FALSE)>>,
     <<Meeting(1, FALSE), Meeting(2, FALSE)>>,
     <<Meeting(24, TRUE)>>,
     <<Meeting(2, FALSE), Meeting(24, TRUE)>>,
     <<Meeting(5, FALSE), Meeting(5, FALSE)>>}

WorkHoursChoices == {4, 8}

\* get_meetings_for_week: {} without a calendar, else a list for each of Monday to
\* Friday (here only the first MaxDays days hold meetings).
CalendarWeeks ==
    {EmptyDict} \cup
    {[d \in Range(Weekdays) |-> IF d \in DOMAIN m THEN m[d] ELSE <<>>] :
        m \in [Range(SubSeq(Weekdays, 1, MaxDays)) -> DayMeetings]}

\* The entry points that compute available_hours_by_day: the calendar-based route
\* (calculate_available_hours) and the manual-meetings route.
InitHours ==
    /\ mode \in {"calendar", "manual"}
    /\ pc = "hours"
    /\ work_hours_per_day \in WorkHoursChoices
    /\ IF mode = "calendar"
       THEN /\ work_days = Weekdays
            /\ meetings_by_day \in CalendarWeeks
       ELSE /\ work_days \in WorkDayLists
            /\ \E days \in SUBSET Range(work_days) :
                   meetings_by_day \in [days -> DayMeetings]
    /\ available_hours_by_day = EmptyDict
    /\ tasks = <<>>
    /\ proposal = [schedule |-> <<>>, unassigned_tasks |-> <<>>]
    /\ sorted_tasks = <<>>
    /\ schedule = <<>>
    /\ unassigned_tasks = <<>>
    /\ task_index = 1
    /\ remaining_hours = 0
    /\ current_day_idx = 0
    /\ current_day_hours = 0
    /\ day_index = 1
    /\ utilization_percentage = 0
    /\ ai_response = "none"
    /\ AllocatorIdle
    /\ ForecastIdle

\* The manual-meetings route:
\* sum(meeting.get('duration_hours', 0) for meeting in day_meetings)
manual_total_meeting_hours(day_meetings) ==
    SumSeq([k \in 1..Len(day_meetings) |-> day_meetings[k].duration_hours])

\* sum(meeting.get('duration_hours', 0) for meeting in meetings
\*     if not meeting.get('is_all_day', False))
total_meeting_hours(meetings) ==
    SumSeq([k \in 1..Len(meetings) |->
               IF ~meetings[k].is_all_day THEN meetings[k].duration_hours ELSE 0])

\* OutlookService.calculate_available_hours, over the days of meetings_by_day.
calculate_available_hours(by_day, hours_per_day) ==
    [day \in DOMAIN by_day |-> Max(0, hours_per_day - total_meeting_hours(by_day[day]))]

\* The manual-meetings route, over work_days_list, a day without an entry holding
\* no meeting (meetings_by_day.get(day, [])).
manual_available_hours(by_day, days, hours_per_day) ==
    [day \in Range(days) |->
        Max(0, hours_per_day - manual_total_meeting_hours(Get(by_day, day, <<>>)))]

CalendarAvailableHours ==
    /\ mode = "calendar"
    /\ pc = "hours"
    /\ available_hours_by_day' = calculate_available_hours(meetings_by_day, work_hours_per_day)
    /\ pc' = "done"
    /\ UNCHANGED <<allocVars_but_pc, reportVars, forecastVars, meetingVars>>
    /\ UNCHANGED <<tasks, work_days, proposal, ai_response, sorted_tasks, schedule,
                   unassigned_tasks, task_index, remaining_hours, current_day_idx,
                   current_day_hours, day_index, utilization_percentage>>

ManualAvailableHours ==
    /\ mode = "manual"
    /\ pc = "hours"
    /\ available_hours_by_day' =
           manual_available_hours(meetings_by_day, work_days, work_hours_per_day)
    /\ pc' = "done"
    /\ UNCHANGED <<allocVars_but_pc, reportVars, forecastVars, meetingVars>>
    /\ UNCHANGED <<tasks, work_days, proposal, ai_response, sorted_tasks, schedule,
                   unassigned_tasks, task_index, remaining_hours, current_day_idx,
                   current_day_hours, day_index, utilization_percentage>>

(* ---------------------------- specification --------------------------- *)
NextAlloc ==
    \/ LBStart \/ LBIterate \/ LBNextProject \/ LBReturn
    \/ CostStart \/ CostIterate \/ CostNextProject \/ CostReturn
    \/ EffRank \/ EffIterate \/ EffNextProject \/ EffReturn
    \/ Summarize \/ Recommend

SpecAlloc == InitAlloc /\ [][NextAlloc]_vars

NextSched ==
    \/ FBStart \/ FBIterate \/ FBNextTask \/ FBFinish
    \/ VStart \/ VDay \/ VFinish
    \/ OrganizeCall \/ ParseResponse \/ ValidationRaises

SpecSched == InitSched /\ [][NextSched]_vars

NextForecast == ForecastIterate \/ ForecastReturn

SpecForecast == InitForecast /\ [][NextForecast]_vars

NextHours == CalendarAvailableHours \/ ManualAvailableHours

SpecHours == InitHours /\ [][NextHours]_vars

(* ====================================================================== *)
(*                        Allocation engine: properties                    *)
(* ====================================================================== *)
PlannedFrom(i) ==
    SumSeq([k \in 1..Len(plans) |->
               IF plans[k].resource_id = i THEN plans[k].planned_capacity ELSE 0])

AllResourcesExhausted ==
    \A i \in 1..Len(resources) : resources[i].available_capacity = 0

Isolated == mode \in {"load_balancing", "cost", "efficiency"}

\* C1: the load-balancing loop stops for a project once its requirement is
\* exhausted or once every resource has availableCapacity 0 (so the run terminates):
\* at the loop head, in either situation, the while condition is false.
C1_LoadBalancingLoopStops ==
    (/\ pc = "lb_loop"
     /\ project_index <= Len(projects)
     /\ (required_capacity = 0 \/ AllResourcesExhausted))
        => ~LBWhileCondition

\* C2: conservation in an isolated run of one strategy that starts with
\* availableCapacity = capacity: the planned capacity taken from a resource never
\* exceeds its capacity, and after the run availableCapacity = capacity - that sum.
C2_Conservation ==
    Isolated =>
        \A i \in 1..Len(resources) :
            /\ PlannedFrom(i) <= resources[i].capacity
            /\ pc = "done" =>
                   resources[i].available_capacity = resources[i].capacity - PlannedFrom(i)

\* An isolated efficiency run has ended with a resource drained by two plans.
C2_Witness ==
    /\ mode = "efficiency"
    /\ pc = "done"
    /\ \E i \in 1..Len(resources) :
           /\ resources[i].available_capacity = 0
           /\ Cardinality({k \in 1..Len(plans) : plans[k].resource_id = i}) = 2

CapacityInRange ==
    mode = "plan" =>
        \A i \in 1..Len(resources) :
            /\ 0 <= resources[i].available_capacity
            /\ resources[i].available_capacity <= resources[i].capacity

ChangedOnlyByAppendedPlan ==
    mode = "plan" =>
        \A i \in 1..Len(resources) :
            resources'[i].available_capacity # resources[i].available_capacity =>
                /\ Len(plans') = Len(plans) + 1
                /\ SubSeq(plans', 1, Len(plans)) = plans
                /\ plans'[Len(plans')].resource_id = i
                /\ resources'[i].available_capacity =
                       resources[i].available_capacity - plans'[Len(plans')].planned_capacity

\* C3: throughout generate_capacity_plan (the three strategies in sequence on the
\* same resources) 0 <= availableCapacity <= capacity, and availableCapacity
\* changes only by the plannedCapacity of the plan appended in the same step.
C3_AvailableCapacityBounded ==
    []CapacityInRange /\ [][ChangedOnlyByAppendedPlan]_vars

\* generate_capacity_plan has ended and all three strategies allocated from one
\* resource to one project (each strategy makes at most one plan per pair).
C3_Witness ==
    /\ mode = "plan"
    /\ pc = "done"
    /\ \E k1, k2, k3 \in 1..Len(plans) :
           /\ k1 < k2 /\ k2 < k3
           /\ plans[k1].resource_id = plans[k2].resource_id
           /\ plans[k2].resource_id = plans[k3].resource_id
           /\ plans[k1].project_id = plans[k2].project_id
           /\ plans[k2].project_id = plans[k3].project_id

IsOverCapacityScenario ==
    /\ mode = "load_balancing"
    /\ Len(resources) = 1
    /\ resources[1].capacity = 40
    /\ resources[1].cost_per_unit = 10
    /\ projects = ScenarioProjects

\* C8: in the over-capacity scenario load balancing returns, with exactly one plan
\* (plannedCapacity 40, utilizationRate 1.0) and the resource left at 0: once the
\* resource is drained no further loop iteration is due, and the returned list is
\* that single plan.
C8_OverCapacityScenario ==
    IsOverCapacityScenario =>
        /\ (pc = "lb_loop" /\ resources[1].available_capacity = 0) =>
               ~(project_index <= Len(projects) /\ LBWhileCondition)
        /\ pc = "done" =>
               /\ Len(plans) = 1
               /\ plans[1].planned_capacity = 40
               /\ plans[1].utilization_rate[1] = plans[1].utilization_rate[2]
               /\ resources[1].available_capacity = 0

\* Whether rule k's condition holds on the summary (an entry the summary lacks
\* reads as 0).
RuleHolds(k) ==
    LET utilization == Get(summary, "capacity_utilization_rate", <<0, 1>>)
        satisfaction == Get(summary, "requirement_satisfaction_rate", <<0, 1>>)
        efficiency == Get(summary, "average_efficiency_score", <<0, 1>>)
    IN  CASE k = 1 -> 10 * utilization[1] < 7 * utilization[2]
          [] k = 2 -> 100 * utilization[1] > 95 * utilization[2]
          [] k = 3 -> 10 * satisfaction[1] < 9 * satisfaction[2]
          [] k = 4 -> 10 * efficiency[1] < 6 * efficiency[2]
          [] k = 5 -> Get(summary, "total_cost", 0) > HighCostThreshold
          [] OTHER -> Get(summary, "number_of_resources", 0)
                          < Get(summary, "number_of_projects", 0)

RuleMessages ==
    <<IncreaseUtilization, HighUtilization, RequirementsUnsatisfied, LowEfficiencyScores,
      HighTotalCost, MoreProjectsThanResources>>

\* C11: the returned recommendations are exactly the messages of the rules whose
\* condition holds on the computed summary, each rule judged on its own, in rule
\* order 1..6.
C11_RecommendationRules ==
    (mode = "plan" /\ pc = "done") =>
        LET fired == SelectSeq([k \in DOMAIN RuleMessages |-> k], LAMBDA k : RuleHolds(k))
        IN  recommendations = [n \in 1..Len(fired) |-> RuleMessages[fired[n]]]

\* A request has returned with a computed summary on which the high-utilization
\* and high-cost rules fire and the others do not.
C11_Witness ==
    /\ mode = "plan"
    /\ pc = "done"
    /\ DOMAIN summary # {}
    /\ recommendations = <<HighUtilization, HighTotalCost>>

\* C12: with an empty project list generate_capacity_plan goes through without
\* entering a project loop, returns no plan and an empty summary, and leaves every
\* resource's availableCapacity as it was.
C12_NoProjects ==
    (mode = "plan" /\ projects = <<>>) =>
        /\ pc \in {"lb_start", "lb_loop", "cost_start", "cost_loop", "eff_rank",
                    "summarize", "recommend", "done"}
        /\ pc \in {"lb_loop", "cost_loop", "eff_rank"} => project_index > Len(projects)
        /\ \A i \in 1..Len(resources) :
               resources[i].available_capacity = resources_at_start[i].available_capacity
        /\ pc \in {"recommend", "done"} => (plans = <<>> /\ DOMAIN summary = {})

\* A request without projects has returned, over a non-empty resource list.
C12_Witness ==
    /\ mode = "plan"
    /\ projects = <<>>
    /\ resources # <<>>
    /\ pc = "done"

PositivePlans == \A k \in 1..Len(plans) : plans[k].planned_capacity > 0

PlansOnlyAppended ==
    /\ Len(plans') >= Len(plans)
    /\ SubSeq(plans', 1, Len(plans)) = plans

\* C15: every plan of every strategy has plannedCapacity > 0, and a step of the
\* run only appends to the plan list: plans already there are neither changed
\* nor removed.
C15_PositivePlansAppendOnly == []PositivePlans /\ [][PlansOnlyAppended]_vars

\* The efficiency strategy has returned after passing over a drained resource:
\* the first project emptied it, the second got its plan from another one.
C15_Witness ==
    /\ mode = "efficiency"
    /\ pc = "done"
    /\ \E i \in 1..Len(resources) :
           /\ resources[i].available_capacity = 0
           /\ \A k \in 1..Len(plans) : plans[k].resource_id = i => plans[k].project_id = 1
    /\ \E k \in 1..Len(plans) : plans[k].project_id # 1

\* C16: inside generate_capacity_plan each of the three strategies starts from the
\* availableCapacity values the invocation started with.
C16_PristineCapacityPerStrategy ==
    (/\ mode = "plan"
     /\ \/ pc \in {"lb_start", "cost_start"}
        \/ (pc = "eff_rank" /\ project_index = 1))
        => \A i \in 1..Len(resources) :
               resources[i].available_capacity = resources_at_start[i].available_capacity

\* The project with this id, wherever the list now holds it.
ProjectById(id) == projects[CHOOSE j \in 1..Len(projects) : projects[j].id = id]

\* C23: every plan, whichever strategy produced it, stores utilizationRate =
\* plannedCapacity / resource.capacity and the efficiency score of its resource and
\* project evaluated at allocation = plannedCapacity.
C23_PlanMetricsMatchAllocation ==
    mode \in {"plan", "load_balancing", "cost", "efficiency"} =>
        \A k \in 1..Len(plans) :
            LET plan == plans[k]
                resource == resources[plan.resource_id]
            IN  /\ plan.utilization_rate = <<plan.planned_capacity, resource.capacity>>
                /\ plan.efficiency_score =
                       _calculate_efficiency_score(resource, ProjectById(plan.project_id),
                                                   plan.planned_capacity)

\* Planned capacity over the plans of a project.
PlannedFor(id) ==
    SumSeq([k \in 1..Len(plans) |->
               IF plans[k].project_id = id THEN plans[k].planned_capacity ELSE 0])

\* C27: in the plans one generate_capacity_plan invocation returns no project is
\* planned more than its required capacity, so that the summary's
\* requirementSatisfactionRate is at most 1.
C27_NoProjectOverServed ==
    (mode = "plan" /\ pc \in {"recommend", "done"}) =>
        /\ \A j \in 1..Len(projects) : PlannedFor(projects[j].id) <= projects[j].capacity
        /\ ~FracGreater(Get(summary, "requirement_satisfaction_rate", Frac(0, 1)), 1, 1)

\* C24: inside generate_capacity_plan the cost strategy takes the projects in the
\* order the caller gave them (ids count the input positions), and a resource gets
\* an allocation only while every strictly cheaper resource has availableCapacity 0.
CostTakesProjectsInInputOrder ==
    (mode = "plan" /\ pc = "cost_loop" /\ project_index <= Len(projects)) =>
        projects[project_index].id = project_index

\* The resource the cost strategy is about to allocate from, if any (0 if none).
CostReceiver ==
    IF /\ pc = "cost_loop"
       /\ project_index <= Len(projects)
       /\ cursor <= Len(resources_sorted)
       /\ required_capacity > 0
       /\ resources[resources_sorted[cursor]].available_capacity > 0
    THEN resources_sorted[cursor]
    ELSE 0

CheapestFirst ==
    (mode = "plan" /\ CostReceiver # 0) =>
        \A j \in 1..Len(resources) :
            resources[j].cost_per_unit < resources[CostReceiver].cost_per_unit =>
                resources[j].available_capacity = 0

C24_CostOptimizationOrder == CostTakesProjectsInInputOrder /\ CheapestFirst

(* ====================================================================== *)
(*                           Forecast: properties                          *)
(* ====================================================================== *)
\* The calendar month i months after the current one, as <<year, month>>.
MonthAfter(i) ==
    LET n == now[2] - 1 + i IN <<now[1] + (n \div 12), (n % 12) + 1>>

\* The next months_ahead calendar months, the current one first.
TargetMonths == {MonthAfter(i) : i \in 0..(months_ahead - 1)}

\* The historical plans of a target's calendar month in a year before the target's.
PlansOfMonth(target) ==
    SelectSeq(historical_plans,
              LAMBDA plan : plan.month = target[2] /\ plan.year < target[1])

\* C17: the returned forecast has an entry for a target month exactly when a
\* historical plan has that calendar month in a prior year; the entry holds the
\* mean utilizationRate of those plans, and confidence 0.8 when more than 5 plans
\* match, 0.6 otherwise.
C17_ForecastEntries ==
    (mode = "forecast" /\ pc = "done") =>
        \A target \in TargetMonths :
            LET matching == PlansOfMonth(target) IN
            /\ target \in DOMAIN forecast <=> matching # <<>>
            /\ target \in DOMAIN forecast =>
                   /\ forecast[target].predicted_utilization =
                          FracMean([k \in 1..Len(matching) |-> matching[k].utilization_rate])
                   /\ forecast[target].confidence_level = (IF Len(matching) > 5 THEN 8 ELSE 6)

\* C25: the i-th month the forecast examines (i = 0, 1, ...) is the calendar month
\* i months after the current one, whatever the current day: no month is skipped
\* or examined twice.
C25_ForecastMonthCoverage ==
    mode = "forecast" =>
        \A i \in 0..(forecast_i - 1) :
            <<TargetDate(i)[1], TargetDate(i)[2]>> = MonthAfter(i)

(* ====================================================================== *)
(*                     Day-scheduling engine: properties                   *)
(* ====================================================================== *)
Returned == pc = "done" /\ mode \in {"fallback", "validate", "organize"}

\* Hours allocated to a task over all days of the schedule.
AllocatedTo(key) ==
    SumOver([d \in DOMAIN schedule |->
                SumSeq([k \in 1..Len(schedule[d]) |->
                           IF schedule[d][k].task_key = key
                           THEN schedule[d][k].allocated_hours ELSE 0])],
            DOMAIN schedule)

\* Remainder reported for a task in unassigned_tasks (0 if it is not listed).
ReportedRemainder(key) ==
    SumSeq([k \in 1..Len(unassigned_tasks) |->
               IF unassigned_tasks[k].task_key = key THEN unassigned_tasks[k].remaining ELSE 0])

ListedUnassigned(key) ==
    \E k \in 1..Len(unassigned_tasks) : unassigned_tasks[k].task_key = key

C5_FallbackTaskConservation ==
    (mode = "fallback" /\ pc = "done") =>
        \A i \in 1..Len(tasks) :
            LET task == tasks[i] IN
            /\ AllocatedTo(task.key) + ReportedRemainder(task.key) = task.remaining_hours
            /\ ListedUnassigned(task.key) <=> task.remaining_hours - AllocatedTo(task.key) > 0

\* The fallback has returned with one task partly scheduled and its rest reported,
\* and another task fully scheduled and not listed.
C5_Witness ==
    /\ mode = "fallback"
    /\ pc = "done"
    /\ \E i, j \in 1..Len(tasks) :
           /\ AllocatedTo(tasks[i].key) > 0
           /\ ReportedRemainder(tasks[i].key) > 0
           /\ AllocatedTo(tasks[j].key) = tasks[j].remaining_hours
           /\ tasks[j].remaining_hours > 0
           /\ ~ListedUnassigned(tasks[j].key)

\* C6: in the result of validating a proposal every task's allocated hours over
\* all days plus its reported remainder equal its remaining hours.
C6_ValidatedTaskConservation ==
    (mode = "validate" /\ pc = "done") =>
        \A i \in 1..Len(tasks) :
            AllocatedTo(tasks[i].key) + ReportedRemainder(tasks[i].key)
                = tasks[i].remaining_hours

\* The run is, or has come to, _fallback_organization.
OnFallbackPath ==
    \/ mode = "fallback"
    \/ (mode = "organize" /\ ai_response \in UnusableResponses)

\* The run is, or has come to, _validate_and_enhance_schedule.
OnValidationPath ==
    \/ mode = "validate"
    \/ (mode = "organize" /\ ai_response = "json")

RECURSIVE FallbackFrom(_, _, _, _, _, _)
\* What the fallback algorithm returns from the point where the tasks ts are left
\* (`left` hours of the first one), the day cursor is at <<day index, hours used>>
\* and sch, unassigned have been produced.
FallbackFrom(ts, left, idx, used, sch, unassigned) ==
    IF ts = <<>> THEN [schedule |-> sch, unassigned_tasks |-> unassigned]
    ELSE IF left > 0 /\ idx < Len(work_days)
    THEN LET day == work_days[idx + 1]
             free == available_hours_by_day[day] - used
             hours == Min(left, free)
             full == used + hours >= available_hours_by_day[day]
         IN  IF free > 0
             THEN FallbackFrom(ts, left - hours,
                               IF full THEN idx + 1 ELSE idx,
                               IF full THEN 0 ELSE used + hours,
                               [sch EXCEPT ![day] = Append(@, Segment(Head(ts).key, hours))],
                               unassigned)
             ELSE FallbackFrom(ts, left, idx + 1, 0, sch, unassigned)
    ELSE FallbackFrom(Tail(ts),
                      IF Len(ts) > 1 THEN ts[2].remaining_hours ELSE 0,
                      idx, used, sch,
                      IF left > 0
                      THEN Append(unassigned, [task_key |-> Head(ts).key, remaining |-> left])
                      ELSE unassigned)

\* The fallback algorithm's result on tasks, work_days and available_hours_by_day.
FallbackResult ==
    LET ordered == StableSort(tasks,
                       {ab \in Range(tasks) \X Range(tasks) : TaskBefore(ab[1], ab[2])})
    IN  FallbackFrom(ordered,
                     IF ordered = <<>> THEN 0 ELSE ordered[1].remaining_hours,
                     0, 0, [d \in Range(work_days) |-> <<>>], <<>>)

\* C13: when the advisory call fails, its answer cannot be parsed or validation
\* raises, organize_tasks still returns a result, and that result is the fallback
\* algorithm's result on the same tasks, work days and available hours.
C13_UnusableProposalFallsBack ==
    (mode = "organize" /\ ai_response \in UnusableResponses /\ pc \in {"done", "error"}) =>
        /\ pc = "done"
        /\ schedule = FallbackResult.schedule
        /\ unassigned_tasks = FallbackResult.unassigned_tasks
        /\ utilization_percentage =
               RoundedPercentage(TotalAllocated(FallbackResult.schedule), TotalAvailableHours)

AllHoursZero == \A d \in Range(work_days) : available_hours_by_day[d] = 0

\* C14: when every configured day has 0 available hours the scheduler returns a
\* result: every day's segment list is empty, every task with positive remaining
\* hours is listed in unassignedTasks, and utilizationPercentage is 0.
C14_NoCapacity ==
    (/\ mode \in {"fallback", "validate", "organize"}
     /\ AllHoursZero
     /\ pc \in {"done", "error"}) =>
        /\ pc = "done"
        /\ \A d \in Range(work_days) : schedule[d] = <<>>
        /\ \A i \in 1..Len(tasks) :
               tasks[i].remaining_hours > 0 => ListedUnassigned(tasks[i].key)
        /\ utilization_percentage = 0

\* The order the claim gives: High before Medium before Low; with equal priority
\* the earlier due date first; equal on both, the larger remaining hours first.
ClaimedBefore(a, b) ==
    LET rank(p) == CASE p = "High" -> 3 [] p = "Medium" -> 2 [] OTHER -> 1
    IN  \/ rank(a.priority) > rank(b.priority)
        \/ /\ a.priority = b.priority
           /\ \/ a.due_date < b.due_date
              \/ (a.due_date = b.due_date /\ a.remaining_hours > b.remaining_hours)

\* C18: the fallback takes the tasks in the claimed order: no task (priority High,
\* Medium or Low, with a due date) is scheduled after a task it should precede.
C18_FallbackSortOrder ==
    (OnFallbackPath /\ pc \in {"fb_loop", "done", "error"}) =>
        \A i, j \in 1..Len(sorted_tasks) :
            (/\ i < j
             /\ {sorted_tasks[i].priority, sorted_tasks[j].priority}
                    \subseteq {"High", "Medium", "Low"}
             /\ sorted_tasks[i].due_date > 0
             /\ sorted_tasks[j].due_date > 0)
                => ~ClaimedBefore(sorted_tasks[j], sorted_tasks[i])

SameSortKey(a, b) ==
    /\ priority_order(a.priority) = priority_order(b.priority)
    /\ a.due_date = b.due_date
    /\ a.remaining_hours = b.remaining_hours

\* Position of a day in work_days.
DayPosition(d) == CHOOSE n \in 1..Len(work_days) : work_days[n] = d

\* Every segment of task a lies before every segment of task b: an earlier day, or
\* the same day and an earlier position.
SegmentsBefore(a, b) ==
    \A d1, d2 \in Range(work_days) :
        \A k1 \in 1..Len(schedule[d1]), k2 \in 1..Len(schedule[d2]) :
            (schedule[d1][k1].task_key = a.key /\ schedule[d2][k2].task_key = b.key) =>
                \/ DayPosition(d1) < DayPosition(d2)
                \/ (d1 = d2 /\ k1 < k2)

\* C19: two tasks with identical sort keys keep their input order in the fallback:
\* the earlier one comes first in the scheduling order and its segments lie before
\* the other's.
C19_FallbackSortStable ==
    (OnFallbackPath /\ pc \in {"fb_loop", "done", "error"}) =>
        \A i, j \in 1..Len(tasks) :
            (i < j /\ SameSortKey(tasks[i], tasks[j])) =>
                /\ \E m, n \in 1..Len(sorted_tasks) :
                       m < n /\ sorted_tasks[m] = tasks[i] /\ sorted_tasks[n] = tasks[j]
                /\ SegmentsBefore(tasks[i], tasks[j])

\* The fallback has returned with segments for two tasks of identical sort key.
C19_Witness ==
    /\ mode = "fallback"
    /\ pc = "done"
    /\ \E i, j \in 1..Len(tasks) :
           /\ i < j
           /\ SameSortKey(tasks[i], tasks[j])
           /\ AllocatedTo(tasks[i].key) > 0
           /\ AllocatedTo(tasks[j].key) > 0

\* Days of the proposal that are configured work days and within their cap.
CompliantDays ==
    {d \in Range(work_days) \cap DOMAIN proposal.schedule :
        HoursOf(proposal.schedule[d]) <= available_hours_by_day[d]}

CompliantDaysKept ==
    (OnValidationPath /\ pc \in {"v_days", "done"}) =>
        \A d \in CompliantDays : schedule[d] = proposal.schedule[d]

\* A validation step changes at most the day it is at, and only if that day was
\* over its cap.
OnlyOverCapDayRewritten ==
    (OnValidationPath /\ pc = "v_days") =>
        \A d \in DOMAIN schedule :
            schedule'[d] # schedule[d] =>
                /\ day_index <= Len(work_days)
                /\ d = work_days[day_index]
                /\ HoursOf(schedule[d]) > available_hours_by_day[d]

\* C20: validation keeps every configured day that is within its cap exactly as
\* proposed; it rewrites only days over their cap, one at a time, leaving all
\* other days as they are.
C20_CompliantDaysUntouched == []CompliantDaysKept /\ [][OnlyOverCapDayRewritten]_vars

\* Validation has returned a proposal of which it kept one non-empty day and
\* rewrote another.
C20_Witness ==
    /\ mode = "validate"
    /\ pc = "done"
    /\ \E d1, d2 \in Range(work_days) \cap DOMAIN proposal.schedule :
           /\ d1 \in CompliantDays
           /\ schedule[d1] # <<>>
           /\ d2 \notin CompliantDays
           /\ schedule[d2] # proposal.schedule[d2]

IsSingleDayScenario == mode = "fallback" /\ tasks = ScenarioTasks

\* C9: in the single-day scenario the day holds exactly one segment (the High task,
\* 8h); unassignedTasks lists the High task with 2h and the Medium and Low tasks
\* with 6h and 4h.
C9_SingleDayScenario ==
    (IsSingleDayScenario /\ pc \in {"done", "error"}) =>
        /\ pc = "done"
        /\ schedule["Monday"] = <<Segment("S-HIGH", 8)>>
        /\ Len(unassigned_tasks) = 3
        /\ Range(unassigned_tasks) =
               {[task_key |-> "S-HIGH", remaining |-> 2],
                [task_key |-> "S-MED", remaining |-> 6],
                [task_key |-> "S-LOW", remaining |-> 4]}

\* The fallback has returned in the single-day scenario, the day full.
C9_Witness ==
    /\ IsSingleDayScenario
    /\ pc = "done"
    /\ HoursOf(schedule["Monday"]) = 8

\* C10: scheduling an empty task list is no error, whatever the work days: the
\* result holds every configured day with an empty segment list, utilization 0
\* and no unassigned task.
C10_EmptyTaskList ==
    (mode = "fallback" /\ tasks = <<>> /\ pc \in {"done", "error"}) =>
        /\ pc = "done"
        /\ \A d \in Range(work_days) : d \in DOMAIN schedule /\ schedule[d] = <<>>
        /\ utilization_percentage = 0
        /\ unassigned_tasks = <<>>

\* Days the proposal had over their cap and validation has dealt with.
RepairedDays ==
    {d \in {work_days[n] : n \in 1..(day_index - 1)} \cap DOMAIN proposal.schedule :
        HoursOf(proposal.schedule[d]) > available_hours_by_day[d]}

\* Index in tasks of the task with this key (0 if there is none).
TaskIndexOf(key) ==
    IF \E i \in 1..Len(tasks) : tasks[i].key = key
    THEN CHOOSE i \in 1..Len(tasks) : tasks[i].key = key
    ELSE 0

ProposedFor(d, key) ==
    \E k \in 1..Len(proposal.schedule[d]) : proposal.schedule[d][k].task_key = key

\* C21: a day that the proposal had over its cap holds, after validation, segments
\* only for input tasks that were proposed for that day, one per task and in the
\* tasks' order, each of min(task's remaining hours, hours still free in the day);
\* a proposed task is left out only once the day's cap is reached.
C21_OverCapDayRepair ==
    (OnValidationPath /\ pc = "done") =>
        \A d \in RepairedDays :
            LET out == schedule[d]
                cap == available_hours_by_day[d]
                free(k) == cap - HoursOf(SubSeq(out, 1, k - 1))
            IN  /\ \A k \in 1..Len(out) :
                       /\ TaskIndexOf(out[k].task_key) # 0
                       /\ ProposedFor(d, out[k].task_key)
                       /\ free(k) > 0
                       /\ out[k].allocated_hours =
                              Min(tasks[TaskIndexOf(out[k].task_key)].remaining_hours, free(k))
                /\ \A k, l \in 1..Len(out) :
                       k < l => TaskIndexOf(out[k].task_key) < TaskIndexOf(out[l].task_key)
                /\ \A i \in 1..Len(tasks) :
                       (/\ ProposedFor(d, tasks[i].key)
                        /\ \A k \in 1..Len(out) : out[k].task_key # tasks[i].key)
                           => HoursOf(out) = cap

\* Validation has returned a repaired day with two segments, the second cut to what
\* the day had left, and another repaired day where a proposed task was left out.
C21_Witness ==
    /\ mode = "validate"
    /\ pc = "done"
    /\ \E d \in RepairedDays :
           /\ Len(schedule[d]) = 2
           /\ schedule[d][2].allocated_hours
                  < tasks[TaskIndexOf(schedule[d][2].task_key)].remaining_hours
    /\ \E d \in RepairedDays, i \in 1..Len(tasks) :
           /\ ProposedFor(d, tasks[i].key)
           /\ \A k \in 1..Len(schedule[d]) : schedule[d][k].task_key # tasks[i].key

\* C22: a task with 0 remaining hours gets no segment and is not listed in
\* unassignedTasks, and the engine produces no segment of 0 hours: in the fallback
\* and in the repair of a proposal's over-cap day.
C22_ZeroHourTasksSkipped ==
    /\ (OnFallbackPath /\ pc \in {"fb_loop", "done", "error"}) =>
           /\ \A d \in DOMAIN schedule : \A k \in 1..Len(schedule[d]) :
                  schedule[d][k].allocated_hours > 0
           /\ \A i \in 1..Len(tasks) :
                  tasks[i].remaining_hours = 0 =>
                      /\ \A d \in DOMAIN schedule : \A k \in 1..Len(schedule[d]) :
                             schedule[d][k].task_key # tasks[i].key
                      /\ ~ListedUnassigned(tasks[i].key)
    /\ (OnValidationPath /\ pc \in {"v_days", "done"}) =>
           \A d \in RepairedDays : \A k \in 1..Len(schedule[d]) :
               /\ schedule[d][k].allocated_hours > 0
               /\ \A i \in 1..Len(tasks) :
                      tasks[i].remaining_hours = 0 => schedule[d][k].task_key # tasks[i].key

FilledToCap(d) == HoursOf(schedule[d]) = available_hours_by_day[d]

\* C28: the fallback wastes no capacity: when its result lists an unassigned task
\* every configured day is filled exactly to its cap, and at any time a day holds
\* a segment only if all earlier configured days are filled to their cap.
C28_FallbackWastesNoCapacity ==
    /\ (OnFallbackPath /\ pc = "done" /\ unassigned_tasks # <<>>) =>
           \A d \in Range(work_days) : FilledToCap(d)
    /\ (OnFallbackPath /\ pc \in {"fb_loop", "done", "error"}) =>
           \A n \in 1..Len(work_days) :
               schedule[work_days[n]] # <<>> =>
                   \A m \in 1..(n - 1) : FilledToCap(work_days[m])

\* The fallback has returned with an unassigned task and segments on two days.
C28_Witness ==
    /\ mode = "fallback"
    /\ pc = "done"
    /\ unassigned_tasks # <<>>
    /\ Len(work_days) = 2
    /\ \A d \in Range(work_days) : schedule[d] # <<>>

\* 100 x allocated / available rounded to one decimal, in tenths of a percent; 0 when
\* no hours are available.
PercentageOf(allocated, available) ==
    IF available > 0 THEN RoundedPercentage(allocated, available) ELSE 0

\* C29: in every returned result utilizationPercentage is 100 x (hours allocated in
\* the returned schedule) / (hours available over the configured work days), and it
\* lies between 0 and 100.
C29_UtilizationIsPercentage ==
    Returned =>
        /\ utilization_percentage =
               PercentageOf(TotalAllocated(schedule),
                            SumOver(available_hours_by_day, Range(work_days)))
        /\ utilization_percentage >= 0
        /\ utilization_percentage <= 1000

\* C30: in every returned result the schedule's day keys are exactly the configured
\* work days and every segment carries the key of an input task.
C30_NoProposalDataLeaks ==
    Returned =>
        /\ DOMAIN schedule = Range(work_days)
        /\ \A d \in DOMAIN schedule : \A k \in 1..Len(schedule[d]) :
               TaskIndexOf(schedule[d][k].task_key) # 0

(* ====================================================================== *)
(*                      Available hours: properties                        *)
(* ====================================================================== *)
\* Hours of a day's meetings that are not all-day.
DeductibleHours(meetings) ==
    SumSeq([k \in 1..Len(meetings) |->
               IF meetings[k].is_all_day THEN 0 ELSE meetings[k].duration_hours])

\* C26: a day's available hours are max(0, hours per day minus the hours of that
\* day's meetings that are not all-day): all-day meetings deduct nothing and the
\* value is never negative, in the calendar-based and in the manual-meetings
\* computation.
C26_MeetingDeduction ==
    (mode \in {"calendar", "manual"} /\ pc = "done") =>
        \A day \in DOMAIN available_hours_by_day :
            available_hours_by_day[day] =
                Max(0, work_hours_per_day
                       - DeductibleHours(Get(meetings_by_day, day, <<>>)))

====
